---------------------------- MODULE Spec2Model ----------------------------
(***************************************************************************)
(* A model of the Modbus TCP performance tester (src/modbus_tester.py):    *)
(* the timed polling loop ModbusTester.run_test, the probe                 *)
(* ModbusTester.read_registers and the reduction of a result list into a   *)
(* statistics record, ModbusTester.calculate_stats; the matrix of runs     *)
(* ModbusTester.run_all_tests with connect, test_connection and            *)
(* disconnect; and the translation of the configured register number into  *)
(* the address handed to the client.                                       *)
(*                                                                         *)
(* Time is counted in integer clock ticks.  A Python float that the code   *)
(* obtains by a division (success_rate, mean, median) is kept as an exact  *)
(* fraction [num, den]; stdev is kept by its square, the sample variance.  *)
(* The wall clock is taken to be monotone, and time.time and               *)
(* time.perf_counter are read off the same clock.  The clock may advance   *)
(* between any two steps of run_test (SpecRun, SpecMatrix); SpecPrompt is  *)
(* run_test on a machine that never delays it.  The statements of          *)
(* run_all_tests outside run_test take no time.                            *)
(***************************************************************************)
EXTENDS Integers, Sequences, FiniteSets, TLC

VARIABLES
    pc,                 \* position of the program
    now,                \* the wall clock, time.time()
    frequency_hz,       \* run_test argument, a fraction of 1/tick
    duration,           \* run_test argument duration_minutes * 60, in ticks
    interval,           \* run_test local
    end_time,           \* run_test local
    next_request_time,  \* run_test local
    current_time,       \* run_test local
    request_count,      \* run_test local
    success_count,      \* run_test local
    failure_count,      \* run_test local
    results,            \* run_test local, calculate_stats argument
    probe_start,        \* read_registers local start_time / timestamp
    wake_time,          \* the instant a pending time.sleep may return
    stats,              \* the value returned by calculate_stats
    run_start,          \* history: the instant next_request_time started from
    register_count,     \* run_test argument
    client,             \* self.client and its transport
    link,               \* the network between the client and the server
    close_calls,        \* history: the calls of self.client.close()
    all_stats,          \* run_all_tests local
    all_results,        \* run_all_tests local
    matrix_pos,         \* run_all_tests: the indices of the two for loops
    saved,              \* history: the arguments of each call of save_results
    interrupted_at,     \* history: where a KeyboardInterrupt was raised
    start_addr,         \* config['registers']['start_address']
    register_type,      \* config['registers'].get('type', 'input')
    modbus_addr         \* the address handed to the client

\* the variables of run_all_tests and of the connection
matrix_vars == <<register_count, client, link, close_calls, all_stats,
                 all_results, matrix_pos, saved>>

\* the variables of the address translation
address_vars == <<start_addr, register_type, modbus_addr>>

vars == <<pc, now, frequency_hz, duration, interval, end_time,
          next_request_time, current_time, request_count, success_count,
          failure_count, results, probe_start, wake_time, stats, run_start,
          matrix_vars, interrupted_at, address_vars>>

(***************************************************************************)
(* Bounds of the model.                                                    *)
(***************************************************************************)
\* longest result list handed to calculate_stats
MaxLen == 5
\* longest result list handed to calculate_stats when only the success flags vary
MaxPatternLen == 10
\* last instant of the wall clock that is explored
MaxTime == 6

\* latencies (ms, as ticks) a result handed to calculate_stats may carry
LatencyValues == {1, 2, 4}
\* periods 1/frequency_hz of the runs explored, in ticks
Periods == {2, 3}
\* durations duration_minutes * 60 of the runs explored, in ticks
Durations == {1, 5}
\* the longest time.sleep of the polling loop, 0.01 s, in ticks
PollingQuantum == 2

(***************************************************************************)
(* Python values.                                                          *)
(***************************************************************************)
None == [none |-> TRUE]

Max(a, b) == IF a >= b THEN a ELSE b

Min(a, b) == IF a <= b THEN a ELSE b

\* a float obtained by a division, kept exact
Frac(n, d) == [num |-> n, den |-> d]

FracEq(p, q) == p.num * q.den = q.num * p.den

\* a TestResult with register_count and frequency_hz at their defaults
TestResult(ts, lat, ok) ==
    [timestamp |-> ts, latency_ms |-> lat, success |-> ok,
     register_count |-> 0, frequency_hz |-> 0]

(***************************************************************************)
(* calculate_stats                                                         *)
(***************************************************************************)
\* a filter that keeps every result
successful_results_unfiltered(rs) == rs

\* [r for r in results if r.success]
successful_results(rs) == SelectSeq(rs, LAMBDA r : r.success)

\* the latencies of all results, failed ones included
latencies_unfiltered(rs) == [i \in 1..Len(rs) |-> rs[i].latency_ms]

\* [r.latency_ms for r in successful_results]
latencies(rs) == [i \in 1..Len(successful_results(rs)) |-> successful_results(rs)[i].latency_ms]

\* the first scan with the counter not reset by a success
ConsecutiveStep_no_reset(st, result) ==
    IF ~result.success
    THEN [current_consecutive_failures |-> st.current_consecutive_failures + 1,
          max_consecutive_failures |->
              Max(st.max_consecutive_failures, st.current_consecutive_failures + 1)]
    ELSE st

\* one iteration of the first scan
ConsecutiveStep(st, result) ==
    IF ~result.success
    THEN [current_consecutive_failures |-> st.current_consecutive_failures + 1,
          max_consecutive_failures |->
              Max(st.max_consecutive_failures, st.current_consecutive_failures + 1)]
    ELSE [current_consecutive_failures |-> 0,
          max_consecutive_failures |-> st.max_consecutive_failures]

RECURSIVE ConsecutiveScan(_)
ConsecutiveScan(rs) ==
    IF rs = <<>>
    THEN [current_consecutive_failures |-> 0, max_consecutive_failures |-> 0]
    ELSE ConsecutiveStep(ConsecutiveScan(SubSeq(rs, 1, Len(rs) - 1)), rs[Len(rs)])

\* the second scan with in_dropout not reset by a success
DropoutStep_no_reset(st, result) ==
    IF ~result.success
    THEN IF st.consecutive_failures + 1 >= 2 /\ ~st.in_dropout
         THEN [consecutive_failures |-> st.consecutive_failures + 1,
               dropout_count |-> st.dropout_count + 1,
               in_dropout |-> TRUE]
         ELSE [consecutive_failures |-> st.consecutive_failures + 1,
               dropout_count |-> st.dropout_count,
               in_dropout |-> st.in_dropout]
    ELSE [consecutive_failures |-> 0,
          dropout_count |-> st.dropout_count,
          in_dropout |-> st.in_dropout]

\* the second scan counting a burst at its first failure
DropoutStep_threshold_one(st, result) ==
    IF ~result.success
    THEN IF st.consecutive_failures + 1 >= 1 /\ ~st.in_dropout
         THEN [consecutive_failures |-> st.consecutive_failures + 1,
               dropout_count |-> st.dropout_count + 1,
               in_dropout |-> TRUE]
         ELSE [consecutive_failures |-> st.consecutive_failures + 1,
               dropout_count |-> st.dropout_count,
               in_dropout |-> st.in_dropout]
    ELSE [consecutive_failures |-> 0,
          dropout_count |-> st.dropout_count,
          in_dropout |-> FALSE]

\* one iteration of the second scan
DropoutStep(st, result) ==
    IF ~result.success
    THEN IF st.consecutive_failures + 1 >= 2 /\ ~st.in_dropout
         THEN [consecutive_failures |-> st.consecutive_failures + 1,
               dropout_count |-> st.dropout_count + 1,
               in_dropout |-> TRUE]
         ELSE [consecutive_failures |-> st.consecutive_failures + 1,
               dropout_count |-> st.dropout_count,
               in_dropout |-> st.in_dropout]
    ELSE [consecutive_failures |-> 0,
          dropout_count |-> st.dropout_count,
          in_dropout |-> FALSE]

RECURSIVE DropoutScan(_)
DropoutScan(rs) ==
    IF rs = <<>>
    THEN [consecutive_failures |-> 0, dropout_count |-> 0, in_dropout |-> FALSE]
    ELSE DropoutStep(DropoutScan(SubSeq(rs, 1, Len(rs) - 1)), rs[Len(rs)])

RECURSIVE SeqSum(_)
SeqSum(s) == IF s = <<>> THEN 0 ELSE s[Len(s)] + SeqSum(SubSeq(s, 1, Len(s) - 1))

SeqMin(s) == CHOOSE x \in {s[i] : i \in 1..Len(s)} : \A i \in 1..Len(s) : x <= s[i]

SeqMax(s) == CHOOSE x \in {s[i] : i \in 1..Len(s)} : \A i \in 1..Len(s) : x >= s[i]

\* sorted(data): t with x put in its place
RECURSIVE Insert(_, _)
Insert(t, x) ==
    IF t = <<>> THEN <<x>>
    ELSE IF x >= t[Len(t)] THEN Append(t, x)
    ELSE Append(Insert(SubSeq(t, 1, Len(t) - 1), x), t[Len(t)])

RECURSIVE Sorted(_)
Sorted(s) == IF s = <<>> THEN <<>> ELSE Insert(Sorted(SubSeq(s, 1, Len(s) - 1)), s[Len(s)])

\* statistics.mean
mean(s) == Frac(SeqSum(s), Len(s))

\* statistics.median
median(s) ==
    LET n == Len(s)
        t == Sorted(s)
    IN  IF n % 2 = 1
        THEN Frac(t[(n \div 2) + 1], 1)
        ELSE Frac(t[n \div 2] + t[(n \div 2) + 1], 2)

\* statistics.stdev squared: sum((x - mean)^2) / (n - 1)
stdev_squared(s) ==
    LET n == Len(s)
        sq == [i \in 1..n |-> s[i] * s[i]]
    IN  Frac(n * SeqSum(sq) - SeqSum(s) * SeqSum(s), n * (n - 1))

\* the rate taken over the failed results
success_rate_of_failed(rs) == Frac((Len(rs) - Len(successful_results(rs))) * 100, Len(rs))

\* len(successful_results) / len(results) * 100
success_rate(rs) == Frac(Len(successful_results(rs)) * 100, Len(rs))

calculate_stats(rs) ==
    LET lat == latencies(rs)
        ok == successful_results(rs)
    IN  IF rs = <<>>
        THEN None
        ELSE [frequency_hz |-> rs[1].frequency_hz,
              register_count |-> rs[1].register_count,
              total_requests |-> Len(rs),
              successful_requests |-> Len(ok),
              failed_requests |-> Len(rs) - Len(ok),
              success_rate |-> IF rs # <<>> THEN success_rate(rs) ELSE Frac(0, 1),
              avg_latency_ms |-> IF lat # <<>> THEN mean(lat) ELSE Frac(0, 1),
              median_latency_ms |-> IF lat # <<>> THEN median(lat) ELSE Frac(0, 1),
              min_latency_ms |-> IF lat # <<>> THEN SeqMin(lat) ELSE 0,
              max_latency_ms |-> IF lat # <<>> THEN SeqMax(lat) ELSE 0,
              latency_std_ms_squared |->
                  IF Len(lat) > 1 THEN stdev_squared(lat) ELSE Frac(0, 1),
              dropout_count |-> DropoutScan(rs).dropout_count,
              max_consecutive_failures |-> ConsecutiveScan(rs).max_consecutive_failures]

(***************************************************************************)
(* calculate_stats called on an arbitrary result list: the list is built   *)
(* one result at a time, and the call may be made on any list built.       *)
(***************************************************************************)
Outcomes == {TestResult(0, l, ok) : l \in LatencyValues, ok \in BOOLEAN}

InitStats ==
    /\ pc = "stats_call"
    /\ results = <<>>
    /\ stats = None
    /\ now = 0
    /\ frequency_hz = 0
    /\ duration = 0
    /\ interval = 0
    /\ end_time = 0
    /\ next_request_time = 0
    /\ current_time = 0
    /\ request_count = 0
    /\ success_count = 0
    /\ failure_count = 0
    /\ probe_start = 0
    /\ wake_time = 0
    /\ run_start = 0
    /\ register_count = 0
    /\ client = "none"
    /\ link = "up"
    /\ close_calls = 0
    /\ all_stats = <<>>
    /\ all_results = <<>>
    /\ matrix_pos = <<0, 0>>
    /\ saved = <<>>
    /\ interrupted_at = "none"
    /\ start_addr = 0
    /\ register_type = "input"
    /\ modbus_addr = None

CalculateStats ==
    /\ pc = "stats_call"
    /\ stats' = calculate_stats(results)
    /\ pc' = "stats_return"
    /\ UNCHANGED <<now, frequency_hz, duration, interval, end_time,
                   next_request_time, current_time, request_count,
                   success_count, failure_count, results, probe_start, wake_time,
                   run_start>>
    /\ UNCHANGED <<matrix_vars, interrupted_at>>
    /\ UNCHANGED address_vars

AddResult ==
    /\ pc = "stats_call"
    /\ Len(results) < MaxLen
    /\ \E r \in Outcomes : results' = Append(results, r)
    /\ UNCHANGED <<pc, now, frequency_hz, duration, interval, end_time,
                   next_request_time, current_time, request_count,
                   success_count, failure_count, probe_start, wake_time, stats, run_start>>
    /\ UNCHANGED <<matrix_vars, interrupted_at>>
    /\ UNCHANGED address_vars

NextStats == AddResult \/ CalculateStats

\* the same with the latency of every result the same: only the order of
\* successes and failures varies, and the lists are longer
AddResultOfPattern ==
    /\ pc = "stats_call"
    /\ Len(results) < MaxPatternLen
    /\ \E ok \in BOOLEAN : results' = Append(results, TestResult(0, 1, ok))
    /\ UNCHANGED <<pc, now, frequency_hz, duration, interval, end_time,
                   next_request_time, current_time, request_count,
                   success_count, failure_count, probe_start, wake_time, stats, run_start>>
    /\ UNCHANGED <<matrix_vars, interrupted_at>>
    /\ UNCHANGED address_vars

NextPattern == AddResultOfPattern \/ CalculateStats

SpecPattern == InitStats /\ [][NextPattern]_vars

SpecStats == InitStats /\ [][NextStats]_vars

(***************************************************************************)
(* read_registers: the client's reply is the registers, an error response  *)
(* or an exception; each of them is turned into a TestResult.              *)
(***************************************************************************)
Replies == {"registers", "error_response", "exception"}

\* the reply "exception" left to propagate to the caller
read_registers_raises(reply, start_time, return_time) ==
    IF reply = "exception"
    THEN [raised |-> "Exception"]
    ELSE TestResult(start_time, return_time - start_time, reply = "registers")

read_registers(reply, start_time, return_time) ==
    IF reply = "registers"
    THEN TestResult(start_time, return_time - start_time, TRUE)
    ELSE IF reply = "error_response"
    THEN TestResult(start_time, return_time - start_time, FALSE)
    ELSE TestResult(start_time, return_time - start_time, FALSE)

Raised(result) == "raised" \in DOMAIN result

(***************************************************************************)
(* run_test                                                                *)
(***************************************************************************)
\* the deadline left where it was unless it is behind
NextRequestTime_not_advanced(next, current, step) ==
    IF next < current THEN current + step ELSE next

\* the deadline advanced and never snapped
NextRequestTime_never_snapped(next, current, step) == next + step

\* the deadline is counted from the instant of the iteration
NextRequestTime_from_current(next, current, step) == current + step

\* next_request_time after a probe: advanced by the interval, and snapped
\* to current_time + interval when it is still behind current_time
NextRequestTime(next, current, step) ==
    IF next + step < current THEN current + step ELSE next + step

InRun == pc \in {"run_entry", "run_init", "loop_test", "loop_body", "probe_call",
                 "in_flight", "sleeping", "loop_exit"}

\* an exception leaves run_test: its locals are gone
Unwind ==
    /\ interval' = 0
    /\ end_time' = 0
    /\ next_request_time' = 0
    /\ current_time' = 0
    /\ request_count' = 0
    /\ success_count' = 0
    /\ failure_count' = 0
    /\ results' = <<>>
    /\ probe_start' = 0
    /\ wake_time' = 0
    /\ run_start' = 0

InitRun ==
    /\ pc = "run_entry"
    /\ now = 0
    /\ frequency_hz \in {Frac(1, p) : p \in Periods}
    /\ duration \in Durations
    /\ interval = 0
    /\ end_time = 0
    /\ next_request_time = 0
    /\ current_time = 0
    /\ request_count = 0
    /\ success_count = 0
    /\ failure_count = 0
    /\ results = <<>>
    /\ probe_start = 0
    /\ wake_time = 0
    /\ stats = None
    /\ run_start = 0
    /\ register_count = 1
    /\ client = "none"
    /\ link = "up"
    /\ close_calls = 0
    /\ all_stats = <<>>
    /\ all_results = <<>>
    /\ matrix_pos = <<0, 0>>
    /\ saved = <<>>
    /\ interrupted_at = "none"
    /\ start_addr = 0
    /\ register_type = "input"
    /\ modbus_addr = None

\* the wall clock advances, whatever the program is doing
Tick ==
    /\ InRun
    /\ now < MaxTime
    /\ now' = now + 1
    /\ UNCHANGED <<pc, frequency_hz, duration, interval, end_time,
                   next_request_time, current_time, request_count,
                   success_count, failure_count, results, probe_start,
                   wake_time, stats, run_start>>
    /\ UNCHANGED <<matrix_vars, interrupted_at>>
    /\ UNCHANGED address_vars

\* results = [], interval = 1.0 / frequency_hz, end_time = time.time() + duration
RunEnter ==
    /\ pc = "run_entry"
    /\ results' = <<>>
    /\ interval' = frequency_hz.den \div frequency_hz.num
    /\ end_time' = now + duration
    /\ pc' = "run_init"
    /\ UNCHANGED <<now, frequency_hz, duration, next_request_time, current_time,
                   request_count, success_count, failure_count, probe_start,
                   wake_time, stats, run_start>>
    /\ UNCHANGED <<matrix_vars, interrupted_at>>
    /\ UNCHANGED address_vars

\* the counters set to 0 and next_request_time = time.time()
RunInit ==
    /\ pc = "run_init"
    /\ request_count' = 0
    /\ success_count' = 0
    /\ failure_count' = 0
    /\ next_request_time' = now
    /\ run_start' = now
    /\ pc' = "loop_test"
    /\ UNCHANGED <<now, frequency_hz, duration, interval, end_time,
                   current_time, results, probe_start, wake_time, stats>>
    /\ UNCHANGED <<matrix_vars, interrupted_at>>
    /\ UNCHANGED address_vars

\* the loop condition with <= in place of <
LoopCondition_inclusive(t, e) == t <= e

\* time.time() < end_time
LoopCondition(t, e) == t < e

\* the whole time to the deadline is slept at once
sleep_time_to_deadline(next, current) == next - current

\* min(sleep_time, 0.01), sleep_time being next_request_time - current_time
sleep_time(next, current) == Min(next - current, PollingQuantum)

\* while time.time() < end_time
LoopTest ==
    /\ pc = "loop_test"
    /\ pc' = IF LoopCondition(now, end_time) THEN "loop_body" ELSE "loop_exit"
    /\ UNCHANGED <<now, frequency_hz, duration, interval, end_time,
                   next_request_time, current_time, request_count,
                   success_count, failure_count, results, probe_start,
                   wake_time, stats, run_start>>
    /\ UNCHANGED <<matrix_vars, interrupted_at>>
    /\ UNCHANGED address_vars

\* current_time = time.time() and the choice between a probe and a sleep
LoopBody ==
    /\ pc = "loop_body"
    /\ current_time' = now
    /\ IF now >= next_request_time
       THEN /\ pc' = "probe_call"
            /\ UNCHANGED wake_time
       ELSE IF next_request_time - now > 0
       THEN /\ pc' = "sleeping"
            /\ wake_time' = now + sleep_time(next_request_time, now)
       ELSE /\ pc' = "loop_test"
            /\ UNCHANGED wake_time
    /\ UNCHANGED <<now, frequency_hz, duration, interval, end_time,
                   next_request_time, request_count, success_count,
                   failure_count, results, probe_start, stats, run_start>>
    /\ UNCHANGED <<matrix_vars, interrupted_at>>
    /\ UNCHANGED address_vars

\* time.sleep returns, at the requested instant or later
Wake ==
    /\ pc = "sleeping"
    /\ now >= wake_time
    /\ pc' = "loop_test"
    /\ UNCHANGED <<now, frequency_hz, duration, interval, end_time,
                   next_request_time, current_time, request_count,
                   success_count, failure_count, results, probe_start,
                   wake_time, stats, run_start>>
    /\ UNCHANGED <<matrix_vars, interrupted_at>>
    /\ UNCHANGED address_vars

\* what the client can answer: over a lost link a read ends in an error
\* response or in an exception of the client (ConnectionException is one)
ClientReplies == IF link = "up" THEN Replies ELSE Replies \ {"registers"}

\* the probe keeps the stamp of the probe before it
ProbeStart_unstamped ==
    /\ pc = "probe_call"
    /\ probe_start' = probe_start
    /\ pc' = "in_flight"
    /\ UNCHANGED <<now, frequency_hz, duration, interval, end_time,
                   next_request_time, current_time, request_count,
                   success_count, failure_count, results, wake_time, stats,
                   run_start, matrix_vars, interrupted_at>>
    /\ UNCHANGED address_vars

\* read_registers is entered: start_time and timestamp are read and the
\* request is sent
ProbeStart ==
    /\ pc = "probe_call"
    /\ probe_start' = now
    /\ pc' = "in_flight"
    /\ UNCHANGED <<now, frequency_hz, duration, interval, end_time,
                   next_request_time, current_time, request_count,
                   success_count, failure_count, results, wake_time, stats, run_start>>
    /\ UNCHANGED <<matrix_vars, interrupted_at>>
    /\ UNCHANGED address_vars

\* the client replies, read_registers returns and the rest of the loop body
\* runs: the result is appended and counted and the deadline is moved
ProbeReturn ==
    /\ pc = "in_flight"
    /\ \E reply \in ClientReplies :
          LET result == read_registers(reply, probe_start, now)
          IN  IF Raised(result)
              THEN /\ pc' = "raised"
                   /\ Unwind
              ELSE /\ results' = Append(results,
                                        [result EXCEPT
                                            !.register_count = register_count,
                                            !.frequency_hz = frequency_hz])
                   /\ request_count' = request_count + 1
                   /\ success_count' = IF result.success THEN success_count + 1
                                                          ELSE success_count
                   /\ failure_count' = IF result.success THEN failure_count
                                                          ELSE failure_count + 1
                   /\ next_request_time' =
                          NextRequestTime(next_request_time, current_time, interval)
                   /\ pc' = "loop_test"
                   /\ UNCHANGED <<interval, end_time, current_time, probe_start,
                                  wake_time, run_start>>
    /\ UNCHANGED <<now, frequency_hz, duration, stats>>
    /\ UNCHANGED <<matrix_vars, interrupted_at>>
    /\ UNCHANGED address_vars

\* the summary line after the loop divides by request_count
LoopExit ==
    /\ pc = "loop_exit"
    /\ IF request_count = 0
       THEN /\ pc' = "zero_division"
            /\ Unwind
       ELSE /\ pc' = "run_return"
            /\ UNCHANGED <<interval, end_time, next_request_time, current_time,
                           request_count, success_count, failure_count, results,
                           probe_start, wake_time, run_start>>
    /\ UNCHANGED <<now, frequency_hz, duration, stats>>
    /\ UNCHANGED <<matrix_vars, interrupted_at>>
    /\ UNCHANGED address_vars

\* the interrupt is held back while a probe is in flight
KeyboardInterrupt_after_probe ==
    /\ InRun
    /\ pc # "in_flight"
    /\ pc' = "interrupted"
    /\ Unwind
    /\ UNCHANGED <<now, frequency_hz, duration, stats>>
    /\ interrupted_at' = pc
    /\ UNCHANGED matrix_vars
    /\ UNCHANGED address_vars

\* the operator interrupts the process: KeyboardInterrupt is raised at the
\* statement being executed, also inside read_registers and time.sleep
KeyboardInterrupt ==
    /\ InRun
    /\ pc' = "interrupted"
    /\ Unwind
    /\ UNCHANGED <<now, frequency_hz, duration, stats>>
    /\ interrupted_at' = pc
    /\ UNCHANGED matrix_vars
    /\ UNCHANGED address_vars

NextRun ==
    \/ Tick
    \/ RunEnter
    \/ RunInit
    \/ LoopTest
    \/ LoopBody
    \/ Wake
    \/ ProbeStart
    \/ ProbeReturn
    \/ LoopExit
    \/ KeyboardInterrupt

SpecRun == InitRun /\ [][NextRun]_vars

\* run_test on a machine that does not delay it: the clock advances only
\* while the program waits, inside the client's read and inside time.sleep,
\* which returns at the instant asked for
Elapse ==
    /\ pc = "in_flight" \/ (pc = "sleeping" /\ now < wake_time)
    /\ Tick

NextPrompt ==
    \/ Elapse
    \/ RunEnter
    \/ RunInit
    \/ LoopTest
    \/ LoopBody
    \/ Wake
    \/ ProbeStart
    \/ ProbeReturn
    \/ LoopExit
    \/ KeyboardInterrupt

\* every step that can be taken is taken in the end: the program runs and
\* the clock advances
SpecPrompt == InitRun /\ [][NextPrompt]_vars /\ WF_vars(NextPrompt)

(***************************************************************************)
(* connect, test_connection, disconnect and run_all_tests: the connection  *)
(* is opened and tried with a test read, every frequency is run with every *)
(* register count, the statistics and the results are handed to            *)
(* save_results, and the finally clause disconnects.                       *)
(***************************************************************************)
\* config['test']: frequencies, register_counts, duration_minutes
frequencies == <<Frac(1, 2), Frac(1, 3)>>

register_counts == <<1, 10>>

duration_minutes == 1

\* what the wall clock reads when run_all_tests is called
MatrixStart == 2

\* what ModbusTcpClient(...) and client.connect() can do
ConnectOutcomes == {"connected", "refused", "exception"}

\* the statements of run_all_tests inside its try, outside run_test
InTry == pc \in {"matrix_loop", "run_return", "save_results", "print_summary"}

\* the statements of run_all_tests before its try: connect and test_connection
InConnect == pc \in {"matrix_entry", "test_connection", "test_more_reads"}

InitMatrix ==
    /\ pc = "matrix_entry"
    /\ now = MatrixStart
    /\ frequency_hz = 0
    /\ duration = 0
    /\ interval = 0
    /\ end_time = 0
    /\ next_request_time = 0
    /\ current_time = 0
    /\ request_count = 0
    /\ success_count = 0
    /\ failure_count = 0
    /\ results = <<>>
    /\ probe_start = 0
    /\ wake_time = 0
    /\ stats = None
    /\ run_start = 0
    /\ register_count = 0
    /\ client = "none"
    /\ link = "up"
    /\ close_calls = 0
    /\ all_stats = <<>>
    /\ all_results = <<>>
    /\ matrix_pos = <<0, 0>>
    /\ saved = <<>>
    /\ interrupted_at = "none"
    /\ start_addr = 0
    /\ register_type = "input"
    /\ modbus_addr = None

run_locals == <<frequency_hz, duration, interval, end_time, next_request_time,
                current_time, request_count, success_count, failure_count,
                results, probe_start, wake_time, stats, run_start,
                register_count>>

\* connect: the client is made and its transport is opened; a refusal and an
\* exception both make connect, and then run_all_tests, return
Connect ==
    /\ pc = "matrix_entry"
    /\ \E outcome \in ConnectOutcomes :
          /\ client' = IF outcome = "connected" THEN "open" ELSE "unconnected"
          /\ pc' = IF outcome = "connected" THEN "test_connection"
                                             ELSE "matrix_return"
    /\ UNCHANGED <<now, run_locals, link, close_calls, all_stats, all_results,
                   matrix_pos, saved, interrupted_at>>
    /\ UNCHANGED address_vars

\* test_connection: the first read; an error response and an exception make
\* test_connection, connect and run_all_tests return
TestRead ==
    /\ pc = "test_connection"
    /\ \E reply \in ClientReplies :
          pc' = IF reply = "registers" THEN "test_more_reads"
                                        ELSE "matrix_return"
    /\ UNCHANGED <<now, run_locals, client, link, close_calls, all_stats,
                   all_results, matrix_pos, saved, interrupted_at>>
    /\ UNCHANGED address_vars

\* test_connection: the reads of 5 and of 10 registers, whose outcome is only
\* printed; connect returns True and run_all_tests enters its try
TestMoreReads ==
    /\ pc = "test_more_reads"
    /\ all_stats' = <<>>
    /\ all_results' = <<>>
    /\ matrix_pos' = <<1, 1>>
    /\ pc' = "matrix_loop"
    /\ UNCHANGED <<now, run_locals, client, link, close_calls, saved,
                   interrupted_at>>
    /\ UNCHANGED address_vars

\* the two for loops: the next frequency and register count are run, or the
\* loops are over
MatrixNextRun ==
    /\ pc = "matrix_loop"
    /\ IF matrix_pos[1] <= Len(frequencies)
       THEN /\ frequency_hz' = frequencies[matrix_pos[1]]
            /\ register_count' = register_counts[matrix_pos[2]]
            /\ duration' = duration_minutes
            /\ pc' = "run_entry"
       ELSE /\ pc' = "save_results"
            /\ UNCHANGED <<frequency_hz, register_count, duration>>
    /\ UNCHANGED <<now, interval, end_time, next_request_time, current_time,
                   request_count, success_count, failure_count, results,
                   probe_start, wake_time, stats, run_start, client, link,
                   close_calls, all_stats, all_results, matrix_pos, saved,
                   interrupted_at>>
    /\ UNCHANGED address_vars

\* the frequencies are the inner loop and the register counts the outer one
NextPosition_size_major(pos) ==
    IF pos[1] < Len(frequencies) THEN <<pos[1] + 1, pos[2]>>
    ELSE IF pos[2] < Len(register_counts) THEN <<1, pos[2] + 1>>
    ELSE <<Len(frequencies) + 1, 1>>

\* for frequency in frequencies: for register_count in register_counts: the
\* indices of the iteration that follows the one at pos
NextPosition(pos) ==
    IF pos[2] < Len(register_counts) THEN <<pos[1], pos[2] + 1>>
                                     ELSE <<pos[1] + 1, 1>>

\* run_test has returned: the statistics of its results are calculated and,
\* unless they are None, appended; the locals of run_test are gone
MatrixCollect ==
    /\ pc = "run_return"
    /\ stats' = calculate_stats(results)
    /\ IF stats' # None
       THEN /\ all_stats' = Append(all_stats, stats')
            /\ all_results' = all_results \o results
       ELSE UNCHANGED <<all_stats, all_results>>
    /\ matrix_pos' = NextPosition(matrix_pos)
    /\ Unwind
    /\ pc' = "matrix_loop"
    /\ UNCHANGED <<now, frequency_hz, duration, register_count, client, link,
                   close_calls, saved, interrupted_at>>
    /\ UNCHANGED address_vars

SaveResults ==
    /\ pc = "save_results"
    /\ saved' = Append(saved, [stats |-> all_stats, results |-> all_results])
    /\ pc' = "print_summary"
    /\ UNCHANGED <<now, run_locals, client, link, close_calls, all_stats,
                   all_results, matrix_pos, interrupted_at>>
    /\ UNCHANGED address_vars

PrintSummary ==
    /\ pc = "print_summary"
    /\ pc' = "finally"
    /\ UNCHANGED <<now, run_locals, matrix_vars, interrupted_at>>
    /\ UNCHANGED address_vars

\* a KeyboardInterrupt inside the try, outside run_test
InterruptTry ==
    /\ InTry
    /\ pc' = "interrupted"
    /\ interrupted_at' = pc
    /\ Unwind
    /\ UNCHANGED <<now, frequency_hz, duration, stats, matrix_vars>>
    /\ UNCHANGED address_vars

\* a KeyboardInterrupt before the try: no handler of run_all_tests is around
\* connect, the exception leaves run_all_tests
InterruptConnect ==
    /\ InConnect
    /\ pc' = "matrix_raised"
    /\ interrupted_at' = pc
    /\ UNCHANGED <<now, run_locals, matrix_vars>>
    /\ UNCHANGED address_vars

\* the handler of the interrupt saves what has been collected
HandleInterrupt_saving ==
    /\ pc = "interrupted"
    /\ saved' = Append(saved, [stats |-> all_stats, results |-> all_results])
    /\ pc' = "finally"
    /\ UNCHANGED <<now, run_locals, client, link, close_calls, all_stats,
                   all_results, matrix_pos, interrupted_at, address_vars>>

\* except KeyboardInterrupt: the interrupt is logged
HandleInterrupt ==
    /\ pc = "interrupted"
    /\ pc' = "finally"
    /\ UNCHANGED <<now, run_locals, matrix_vars, interrupted_at>>
    /\ UNCHANGED address_vars

\* any other exception has no handler in run_all_tests: the finally clause
\* runs and the exception goes on to main
PropagateException ==
    /\ pc \in {"zero_division", "raised"}
    /\ pc' = "finally_raising"
    /\ UNCHANGED <<now, run_locals, matrix_vars, interrupted_at>>
    /\ UNCHANGED address_vars

\* finally: disconnect closes the client if there is one
Disconnect ==
    /\ pc \in {"finally", "finally_raising"}
    /\ IF client # "none"
       THEN client' = "closed" /\ close_calls' = close_calls + 1
       ELSE UNCHANGED <<client, close_calls>>
    /\ pc' = IF pc = "finally" THEN "matrix_return" ELSE "matrix_raised"
    /\ UNCHANGED <<now, run_locals, link, all_stats, all_results, matrix_pos,
                   saved, interrupted_at>>
    /\ UNCHANGED address_vars

\* the transport is lost: the server or the network goes away
LinkDown ==
    /\ client = "open"
    /\ link = "up"
    /\ InRun \/ InTry
    /\ link' = "down"
    /\ UNCHANGED <<pc, now, run_locals, client, close_calls, all_stats,
                   all_results, matrix_pos, saved, interrupted_at>>
    /\ UNCHANGED address_vars

NextMatrix ==
    \/ Connect
    \/ TestRead
    \/ TestMoreReads
    \/ MatrixNextRun
    \/ NextRun
    \/ MatrixCollect
    \/ SaveResults
    \/ PrintSummary
    \/ InterruptTry
    \/ InterruptConnect
    \/ HandleInterrupt
    \/ PropagateException
    \/ Disconnect
    \/ LinkDown

SpecMatrix == InitMatrix /\ [][NextMatrix]_vars

(***************************************************************************)
(* The translation of the configured register number into the address      *)
(* handed to the client, which the code has in three places.               *)
(***************************************************************************)
\* the translation with the two offsets exchanged
read_registers_modbus_addr_swapped(addr, type) ==
    IF type = "input"
    THEN IF addr >= 40001 THEN addr - 40001 ELSE addr
    ELSE IF addr >= 30001 THEN addr - 30001 ELSE addr

\* read_registers, lines 212 to 231
read_registers_modbus_addr(addr, type) ==
    IF type = "input"
    THEN IF addr >= 30001 THEN addr - 30001 ELSE addr
    ELSE IF addr >= 40001 THEN addr - 40001 ELSE addr

\* ModbusTester.test_connection, lines 121 to 138
test_connection_modbus_addr(addr, type) ==
    IF type = "input"
    THEN IF addr >= 30001 THEN addr - 30001 ELSE addr
    ELSE IF addr >= 40001 THEN addr - 40001 ELSE addr

\* test_connection.py, lines 44 to 54
quick_test_modbus_addr(addr, type) ==
    IF type = "input"
    THEN IF addr >= 30001 THEN addr - 30001 ELSE addr
    ELSE IF addr >= 40001 THEN addr - 40001 ELSE addr

\* register numbers around the two offsets
StartAddresses == {0, 100, 5001, 30000, 30001, 30005, 39999, 40000, 40001,
                   40010, 49999, 65535}

\* the configured type; every type but 'input' is read as holding registers
RegisterTypes == {"input", "holding", "coil"}

InitAddress ==
    /\ pc = "address_config"
    /\ now = 0
    /\ frequency_hz = 0
    /\ duration = 0
    /\ interval = 0
    /\ end_time = 0
    /\ next_request_time = 0
    /\ current_time = 0
    /\ request_count = 0
    /\ success_count = 0
    /\ failure_count = 0
    /\ results = <<>>
    /\ probe_start = 0
    /\ wake_time = 0
    /\ stats = None
    /\ run_start = 0
    /\ register_count = 0
    /\ client = "none"
    /\ link = "up"
    /\ close_calls = 0
    /\ all_stats = <<>>
    /\ all_results = <<>>
    /\ matrix_pos = <<0, 0>>
    /\ saved = <<>>
    /\ interrupted_at = "none"
    /\ start_addr \in StartAddresses
    /\ register_type \in RegisterTypes
    /\ modbus_addr = None

\* the address is translated in read_registers
TranslateInReadRegisters ==
    /\ pc = "address_config"
    /\ modbus_addr' = read_registers_modbus_addr(start_addr, register_type)
    /\ pc' = "address_read_registers"
    /\ UNCHANGED <<now, run_locals, matrix_vars, interrupted_at, start_addr,
                   register_type>>

\* the address is translated in ModbusTester.test_connection
TranslateInTestConnection ==
    /\ pc = "address_config"
    /\ modbus_addr' = test_connection_modbus_addr(start_addr, register_type)
    /\ pc' = "address_test_connection"
    /\ UNCHANGED <<now, run_locals, matrix_vars, interrupted_at, start_addr,
                   register_type>>

\* the address is translated in test_connection.py
TranslateInQuickTest ==
    /\ pc = "address_config"
    /\ modbus_addr' = quick_test_modbus_addr(start_addr, register_type)
    /\ pc' = "address_quick_test"
    /\ UNCHANGED <<now, run_locals, matrix_vars, interrupted_at, start_addr,
                   register_type>>

NextAddress ==
    \/ TranslateInReadRegisters
    \/ TranslateInTestConnection
    \/ TranslateInQuickTest

SpecAddress == InitAddress /\ [][NextAddress]_vars

(***************************************************************************)
(* What the statistics are compared with: the result list read directly.   *)
(***************************************************************************)
Returned == pc = "stats_return" /\ stats # None

Pattern(rs) == [i \in 1..Len(rs) |-> rs[i].success]

Failed(rs) == {i \in 1..Len(rs) : ~rs[i].success}

Succeeded(rs) == {i \in 1..Len(rs) : rs[i].success}

\* i..j is a maximal run of consecutive failures of rs
IsFailureRun(rs, i, j) ==
    /\ i <= j
    /\ \A k \in i..j : ~rs[k].success
    /\ i = 1 \/ rs[i - 1].success
    /\ j = Len(rs) \/ rs[j + 1].success

FailureRuns(rs) == {run \in (1..Len(rs)) \X (1..Len(rs)) : IsFailureRun(rs, run[1], run[2])}

RunLength(run) == run[2] - run[1] + 1

Bursts(rs) == {run \in FailureRuns(rs) : RunLength(run) >= 2}

LongestRun(rs) ==
    IF FailureRuns(rs) = {} THEN 0
    ELSE CHOOSE n \in {RunLength(run) : run \in FailureRuns(rs)} :
             \A run \in FailureRuns(rs) : RunLength(run) <= n

\* C1: the dropout_count returned by calculate_stats is the number of maximal
\* runs of consecutive failures of length at least 2 of the result list: a
\* burst counts once, an isolated failure never, bursts separated by a
\* success count separately.
C1_DropoutCountIsNumberOfBursts ==
    Returned => stats.dropout_count = Cardinality(Bursts(results))

C1_Witness ==
    /\ Returned
    /\ Pattern(results) = <<TRUE, FALSE, FALSE, TRUE, FALSE, FALSE, FALSE>>
    /\ stats.dropout_count = 2

\* C2: the max_consecutive_failures returned by calculate_stats is the length
\* of the longest run of consecutive failures of the result list, 0 when
\* there is no failure.
C2_MaxConsecutiveIsLongestRun ==
    Returned => stats.max_consecutive_failures = LongestRun(results)

C2_Witness ==
    /\ Returned
    /\ Pattern(results) = <<FALSE, TRUE, FALSE, TRUE, FALSE>>
    /\ stats.max_consecutive_failures = 1

\* C3 as stated: dropout_count never exceeds max_consecutive_failures.
C3_DropoutAtMostMaxConsecutive ==
    Returned => stats.dropout_count <= stats.max_consecutive_failures

\* C3 as amended: a result list with no run of two or more consecutive
\* failures has dropout_count 0, and a result list whose failures form a
\* single run of k >= 2 has dropout_count 1 and max_consecutive_failures k.
C3_SingleBurst ==
    Returned =>
        /\ Bursts(results) = {} => stats.dropout_count = 0
        /\ \A run \in FailureRuns(results) :
               FailureRuns(results) = {run} /\ RunLength(run) >= 2 =>
                   /\ stats.dropout_count = 1
                   /\ stats.max_consecutive_failures = RunLength(run)

C3_Witness ==
    /\ Returned
    /\ Pattern(results) = <<TRUE, FALSE, FALSE, FALSE, TRUE>>
    /\ stats.dropout_count = 1
    /\ stats.max_consecutive_failures = 3

\* C4: successful_requests + failed_requests = total_requests, where
\* total_requests is the length of the result list and successful_requests
\* the number of its results with success true.
C4_CountsAddUp ==
    Returned =>
        /\ stats.successful_requests + stats.failed_requests = stats.total_requests
        /\ stats.total_requests = Len(results)
        /\ stats.successful_requests = Cardinality(Succeeded(results))

C4_Witness ==
    /\ Returned
    /\ Succeeded(results) # {}
    /\ Failed(results) # {}
    /\ stats.successful_requests = 2
    /\ stats.failed_requests = 3

ZeroStats ==
    [frequency_hz |-> 0, register_count |-> 0, total_requests |-> 0, successful_requests |-> 0, failed_requests |-> 0,
     success_rate |-> Frac(0, 1), avg_latency_ms |-> Frac(0, 1),
     median_latency_ms |-> Frac(0, 1), min_latency_ms |-> 0, max_latency_ms |-> 0,
     latency_std_ms_squared |-> Frac(0, 1), dropout_count |-> 0,
     max_consecutive_failures |-> 0]

\* C6: given the empty result list, calculate_stats returns the statistics
\* record with all counts zero, rates 0 and no latency value.
C6_EmptyInputZeroRecord ==
    pc = "stats_return" /\ results = <<>> => stats = ZeroStats

LatencyStats(st) ==
    <<st.avg_latency_ms, st.median_latency_ms, st.min_latency_ms,
      st.max_latency_ms, st.latency_std_ms_squared>>

\* rs with the latency of its i-th result changed to l
WithLatency(rs, i, l) == [rs EXCEPT ![i].latency_ms = l]

\* the latencies a failed result is changed to
OtherLatencies == {0, 7}

\* C7: min_latency_ms and max_latency_ms are the least and greatest latency
\* of the results with success true, changing the latency of a failed
\* result changes no latency statistic, every latency statistic is 0 when
\* no result succeeded, and the standard deviation is 0 when fewer than two
\* results succeeded.
C7_LatencyOverSuccessesOnly ==
    Returned =>
        /\ Succeeded(results) # {} =>
               /\ \E i \in Succeeded(results) : stats.min_latency_ms = results[i].latency_ms
               /\ \A i \in Succeeded(results) : stats.min_latency_ms <= results[i].latency_ms
               /\ \E i \in Succeeded(results) : stats.max_latency_ms = results[i].latency_ms
               /\ \A i \in Succeeded(results) : stats.max_latency_ms >= results[i].latency_ms
        /\ Succeeded(results) = {} =>
               LatencyStats(stats) = <<Frac(0, 1), Frac(0, 1), 0, 0, Frac(0, 1)>>
        /\ Cardinality(Succeeded(results)) < 2 => stats.latency_std_ms_squared = Frac(0, 1)
        /\ \A i \in Failed(results) : \A l \in OtherLatencies :
               LatencyStats(calculate_stats(WithLatency(results, i, l))) = LatencyStats(stats)

C7_Witness ==
    /\ Returned
    /\ Len(results) = 4
    /\ Pattern(results) = <<TRUE, FALSE, TRUE, TRUE>>
    /\ results[2].latency_ms = 4
    /\ stats.min_latency_ms = 1
    /\ stats.max_latency_ms = 2

(***************************************************************************)
(* run_test: the polling loop.                                             *)
(***************************************************************************)
\* the positions at which the loop's variables are set
InLoop == pc \in {"loop_test", "loop_body", "probe_call", "in_flight", "sleeping",
                  "loop_exit", "run_return"}

\* probes started so far: those recorded and the one in flight
ProbesStarted == Len(results) + (IF pc = "in_flight" THEN 1 ELSE 0)

\* C8: the k-th probe of a run never starts before start + (k-1) * interval,
\* start being the instant next_request_time is initialised to, so that the
\* number of probes started by any instant t is at most
\* floor((t - start) / interval) + 1, whatever the latencies and the jitter.
C8_RateNeverExceeded ==
    InLoop =>
        /\ \A k \in 1..Len(results) :
               results[k].timestamp >= run_start + (k - 1) * interval
        /\ pc = "in_flight" => probe_start >= run_start + Len(results) * interval
        /\ ProbesStarted <= ((now - run_start) \div interval) + 1

\* a probe that took more than one interval has returned and the next
\* probe was started at once, inside the rate bound
C8_Witness ==
    /\ pc = "in_flight"
    /\ Len(results) = 1
    /\ results[1].latency_ms > interval
    /\ probe_start = results[1].timestamp + results[1].latency_ms
    /\ C8_RateNeverExceeded

\* a step in which read_registers returns and the loop body is completed
ProbeReturns == pc = "in_flight" /\ pc' = "loop_test"

\* C9 as stated: when the advanced deadline is behind the instant at which
\* it is updated, after the probe returned, it is snapped to that instant
\* plus the interval.
C9_SnapToUpdateInstant ==
    [][ProbeReturns /\ next_request_time + interval < now
           => next_request_time' = now + interval]_vars

\* C9 as amended: when the advanced deadline is behind current_time, the
\* instant read at the top of the iteration before the probe was executed,
\* it is snapped to current_time + interval, and otherwise it is the
\* advanced deadline; a probe is issued only in an iteration whose instant
\* has reached the deadline.
C9_SnapToIterationInstant ==
    [][/\ ProbeReturns =>
              next_request_time' =
                  IF next_request_time + interval < current_time
                  THEN current_time + interval
                  ELSE next_request_time + interval
       /\ pc' \in {"probe_call", "in_flight"} => current_time' >= next_request_time']_vars

\* the second probe of a run was issued more than two intervals after the
\* first was started, and the deadline was snapped
C9_Witness ==
    /\ pc = "loop_test"
    /\ request_count = 2
    /\ results[1].timestamp + 2 * interval < current_time
    /\ next_request_time = current_time + interval

CountsAgree ==
    /\ Len(results) = request_count
    /\ request_count = success_count + failure_count
    /\ success_count = Cardinality(Succeeded(results))
    /\ failure_count = Cardinality(Failed(results))
    /\ \A k \in 1..(Len(results) - 1) :
           results[k].timestamp + results[k].latency_ms <= results[k + 1].timestamp

\* C10: an error response and an exception of the client are both turned
\* into a failed result by read_registers; whatever the reply, the probe's
\* result is appended to results and counted and the loop goes on to its
\* next test, and len(results) == request_count == success_count +
\* failure_count after every iteration, the results being in issue order.
C10_ProbeFailureRecorded ==
    [][/\ \A reply \in {"error_response", "exception"} :
              /\ ~Raised(read_registers(reply, probe_start, now))
              /\ ~read_registers(reply, probe_start, now).success
       /\ pc = "in_flight" /\ pc' # "in_flight" /\ pc' # "interrupted" =>
              /\ pc' = "loop_test"
              /\ \E ok \in BOOLEAN :
                     results' = Append(results,
                         [TestResult(probe_start, now - probe_start, ok) EXCEPT
                             !.register_count = register_count,
                             !.frequency_hz = frequency_hz])
              /\ request_count' = request_count + 1
       /\ InLoop' => CountsAgree']_vars

\* a failed result was recorded and the loop went on to record another
C10_Witness ==
    /\ pc = "loop_test"
    /\ Len(results) = 3
    /\ ~results[1].success
    /\ results[2].success
    /\ ~results[3].success
    /\ failure_count = 2
    /\ success_count = 1

\* C6, its second part: a run that issued no probe does not end in the
\* division by request_count of the summary line.
C6_EmptyRunZeroDivision == pc # "zero_division"

(***************************************************************************)
(* The claims about run_all_tests, the connection and the interrupt.       *)
(***************************************************************************)
\* C11: a probe that ends while the transport is lost is not recorded as a
\* failed result: an exception leaves run_test (no result is appended, the
\* loop is left) and goes on through run_all_tests, so that no further run
\* is started.
C11_ConnectionFailurePropagates ==
    [][pc = "in_flight" /\ link = "down" /\ pc' # "in_flight"
       /\ pc' # "interrupted" =>
           /\ pc' = "raised"
           /\ results' = <<>>]_vars

(***************************************************************************)
(* The claims about the timing of run_test.                                *)
(***************************************************************************)
\* the latency of the last result, 0 when there is none
LastLatency == IF results = <<>> THEN 0 ELSE results[Len(results)].latency_ms

\* the instant after which the loop cannot go on: end_time, one polling
\* quantum and the duration of one probe
ExitDeadline == end_time + PollingQuantum + LastLatency

ZeroLatency == \A k \in 1..Len(results) : results[k].latency_ms = 0

\* floor(R * D) for the rate frequency_hz and the duration of the run
ExpectedProbes == (frequency_hz.num * duration) \div frequency_hz.den

\* C13: with probes of zero latency on a machine that does not delay the
\* program, the first probe is issued at the start instant and the k-th one
\* exactly (k - 1) intervals after it, and the run returns with a number of
\* probes that differs from floor(R * D) by at most 1.
C13_IdealProbeCount ==
    InLoop /\ ZeroLatency =>
        /\ \A k \in 1..Len(results) :
               results[k].timestamp = run_start + (k - 1) * interval
        /\ pc = "in_flight" => probe_start = run_start + Len(results) * interval
        /\ pc = "run_return" =>
               /\ request_count >= ExpectedProbes - 1
               /\ request_count <= ExpectedProbes + 1

\* a run of duration 5 at interval 2 returned after three probes of zero
\* latency
C13_Witness ==
    /\ pc = "run_return"
    /\ ZeroLatency
    /\ request_count = 3
    /\ ExpectedProbes = 2
    /\ results[3].timestamp = run_start + 2 * interval

\* run_all_tests is over: it returned or an exception left it
MatrixOver == pc \in {"matrix_return", "matrix_raised"}

\* C14: on every way out of run_all_tests after the transport was opened
\* (the last run, an exception, an interrupt, a failed test read) the
\* connection has been released exactly once; a probe of the matrix is in
\* flight only on a connection that connect() opened and that has not been
\* closed.
C14_ReleasedOnEveryExit ==
    /\ MatrixOver /\ client # "none" /\ client # "unconnected" =>
           client = "closed" /\ close_calls = 1
    /\ close_calls <= 1
    /\ InRun => client = "open" /\ close_calls = 0

TotalTests == Len(frequencies) * Len(register_counts)

\* the n-th run of the matrix, the frequencies outermost
RunConfig(n) ==
    [frequency_hz |-> frequencies[((n - 1) \div Len(register_counts)) + 1],
     register_count |-> register_counts[((n - 1) % Len(register_counts)) + 1]]

\* whether the record r (a result or a statistics record) is of the n-th run
OfRun(r, n) ==
    /\ r.frequency_hz = RunConfig(n).frequency_hz
    /\ r.register_count = RunConfig(n).register_count

\* the results of the n-th run among rs, in their order in rs
ResultsOfRun(rs, n) == SelectSeq(rs, LAMBDA r : OfRun(r, n))

\* the concatenation of the results of the runs 1..n among rs
RunsConcatenated(rs, n) ==
    LET RECURSIVE Concat(_)
        Concat(k) == IF k = 0 THEN <<>>
                     ELSE Concat(k - 1) \o ResultsOfRun(rs, k)
    IN  Concat(n)

\* C16: what save_results receives when the matrix is completed: one
\* statistics record for each run, in the order of the matrix with the
\* frequencies outermost, each with the frequency and the register count of
\* its run and calculated from the results of that run; and the list of
\* results is the results of the runs one after the other in that order.
C16_SinkInMatrixOrder ==
    /\ \A s \in 1..Len(saved) :
           /\ Len(saved[s].stats) = TotalTests
           /\ \A n \in 1..TotalTests :
                  /\ OfRun(saved[s].stats[n], n)
                  /\ ResultsOfRun(saved[s].results, n) # <<>>
                  /\ saved[s].stats[n] =
                         calculate_stats(ResultsOfRun(saved[s].results, n))
           /\ saved[s].results = RunsConcatenated(saved[s].results, TotalTests)
           /\ \A i \in 1..Len(saved[s].results) - 1 :
                  saved[s].results[i].timestamp
                      <= saved[s].results[i + 1].timestamp
    /\ pc = "save_results" => Len(all_stats) = TotalTests
    /\ pc = "print_summary" => Len(saved) = 1

\* the matrix was completed with a run that had a failure in it
C16_Witness ==
    /\ pc = "matrix_return"
    /\ Len(saved) = 1
    /\ Len(saved[1].stats) = 4
    /\ saved[1].stats[3].failed_requests = 1
    /\ saved[1].stats[2].total_requests = 1
    /\ Len(saved[1].results) = 4

\* every probe of the matrix that has returned, in the order of its return
ProbesReturned == all_results \o results

\* the instant at which the probe of the result r returned
ReturnInstant(r) == r.timestamp + r.latency_ms

\* the number of the run the two for loops are at
CurrentRun == (matrix_pos[1] - 1) * Len(register_counts) + matrix_pos[2]

\* C17: the probes are strictly sequential: each probe was started no
\* earlier than the return of the one before it, also across the runs of the
\* matrix; the probe in flight was started after every other probe had
\* returned, so that no two are in flight at once; and the runs come one at
\* a time: the probes of a run all precede those of the next run, and the
\* results being collected are those of the run the loops are at.
C17_ProbesSequential ==
    /\ \A i \in 1..Len(ProbesReturned) - 1 :
           ReturnInstant(ProbesReturned[i]) <= ProbesReturned[i + 1].timestamp
    /\ \A i \in 1..Len(ProbesReturned) : ReturnInstant(ProbesReturned[i]) <= now
    /\ pc = "in_flight" =>
           /\ probe_start <= now
           /\ \A i \in 1..Len(ProbesReturned) :
                  ReturnInstant(ProbesReturned[i]) <= probe_start
    /\ ProbesReturned = RunsConcatenated(ProbesReturned, TotalTests)
    /\ \A i \in 1..Len(results) : OfRun(results[i], CurrentRun)
    /\ \A i \in 1..Len(all_results) :
           \E n \in 1..CurrentRun - 1 : OfRun(all_results[i], n)

\* the second run has a probe in flight after a probe of the first run that
\* took some time, and after a probe of its own
C17_Witness ==
    /\ pc = "in_flight"
    /\ CurrentRun = 2
    /\ Len(all_results) = 1
    /\ all_results[1].latency_ms = 1
    /\ Len(results) = 1
    /\ probe_start >= ReturnInstant(results[1])

(***************************************************************************)
(* The claim about the address translation.                                *)
(***************************************************************************)
\* the address was translated by one of the three places
Translated == pc \in {"address_read_registers", "address_test_connection",
                      "address_quick_test"}

\* C18: the address handed to the client depends on the configured number
\* and type only: with the type input a number >= 30001 gives number - 30001,
\* with the type holding a number >= 40001 gives number - 40001, every other
\* number of these two types is handed on unchanged; and the three places
\* that translate give the same address for every number and type.
C18_AddressTranslation ==
    /\ Translated /\ register_type = "input" =>
           modbus_addr = IF start_addr >= 30001 THEN start_addr - 30001
                                                ELSE start_addr
    /\ Translated /\ register_type = "holding" =>
           modbus_addr = IF start_addr >= 40001 THEN start_addr - 40001
                                                ELSE start_addr
    /\ Translated =>
           /\ modbus_addr = read_registers_modbus_addr(start_addr, register_type)
           /\ modbus_addr = test_connection_modbus_addr(start_addr, register_type)
           /\ modbus_addr = quick_test_modbus_addr(start_addr, register_type)
    /\ Translated /\ start_addr = 30005 /\ register_type = "input" =>
           modbus_addr = 4
    /\ Translated /\ start_addr = 40010 /\ register_type = "holding" =>
           modbus_addr = 9
    /\ Translated /\ start_addr = 100 => modbus_addr = 100

\* test_connection.py translated the holding register 40010 into 9
C18_Witness ==
    /\ pc = "address_quick_test"
    /\ start_addr = 40010
    /\ register_type = "holding"
    /\ modbus_addr = 9

(***************************************************************************)
(* The claims about the idle wait and the deadlines of run_test.           *)
(***************************************************************************)
\* C19: an iteration that finds the deadline not yet arrived always sleeps
\* (it never goes round without waiting), and the time it asks time.sleep
\* for is positive and is the smaller of the time left to next_request_time
\* and the polling quantum: the sleep asked for neither exceeds the quantum
\* nor passes the deadline.  An iteration whose deadline has arrived probes.
C19_IdleSleep ==
    [][pc = "loop_body" /\ pc' # "loop_body" /\ pc' # "interrupted" =>
           IF now >= next_request_time
           THEN pc' = "probe_call"
           ELSE /\ pc' = "sleeping"
                /\ wake_time' - now > 0
                /\ wake_time' - now = Min(next_request_time - now, PollingQuantum)
                /\ wake_time' - now <= PollingQuantum
                /\ wake_time' <= next_request_time]_vars

\* a sleep of one polling quantum that ends before the deadline
C19_Witness ==
    /\ pc = "sleeping"
    /\ wake_time - current_time = PollingQuantum
    /\ wake_time < next_request_time
    /\ request_count = 1

\* the deadline the k-th probe of a run has when no deadline was snapped
Deadline(k) == run_start + (k - 1) * interval

\* every probe so far was issued less than one interval after its deadline
NoSnap == \A k \in 1..Len(results) : results[k].timestamp < Deadline(k) + interval

\* C20: as long as every probe was issued less than one interval after its
\* deadline, the deadline of the k-th probe is start + (k - 1) * interval,
\* whatever the latencies of the probes and the lateness of the wake-ups:
\* after k - 1 probes next_request_time is start + (k - 1) * interval.
C20_DriftFree ==
    InLoop /\ NoSnap => next_request_time = Deadline(Len(results) + 1)

\* the third deadline is two intervals after the start although the first
\* probe took time and the second was issued late
C20_Witness ==
    /\ pc = "loop_test"
    /\ Len(results) = 2
    /\ NoSnap
    /\ results[1].latency_ms >= 1
    /\ results[2].timestamp > Deadline(2)
    /\ next_request_time = run_start + 2 * interval

\* C21: every probe moves next_request_time forward, by at least one
\* interval (which is positive), and right after the update the deadline is
\* not earlier than current_time, the instant read at the top of the
\* iteration before the probe was executed.
C21_DeadlineAdvances ==
    [][ProbeReturns =>
           /\ interval > 0
           /\ next_request_time' >= next_request_time + interval
           /\ next_request_time' > next_request_time
           /\ next_request_time' >= current_time]_vars

\* the deadline was snapped: it is one interval after the instant of the
\* iteration and more than one interval after the deadline before
C21_Witness ==
    /\ pc = "loop_test"
    /\ Len(results) = 2
    /\ next_request_time = current_time + interval
    /\ next_request_time > run_start + 2 * interval

(***************************************************************************)
(* The claim about the two scans of calculate_stats.                       *)
(***************************************************************************)
\* C22: in the statistics of every list of results the two scans agree:
\* there is a dropout exactly when some two failures are consecutive
\* (dropout_count >= 1 iff max_consecutive_failures >= 2), and every
\* dropout takes at least two failures (2 * dropout_count <=
\* failed_requests).
C22_ScansAgree ==
    Returned =>
        /\ (stats.dropout_count >= 1) <=> (stats.max_consecutive_failures >= 2)
        /\ 2 * stats.dropout_count <= stats.failed_requests

\* five results with two dropouts of exactly two failures each
C22_Witness ==
    /\ Returned
    /\ stats.dropout_count = 2
    /\ stats.failed_requests = 4
    /\ stats.max_consecutive_failures = 2
    /\ Len(results) = 5

(***************************************************************************)
(* The claim about the call of save_results.                               *)
(***************************************************************************)
\* the two for loops are over: every run of the matrix has returned
LoopsOver == matrix_pos[1] > Len(frequencies)

\* the matrix was ended before its last run had returned, by an interrupt
\* or by an exception
EndedEarly ==
    \/ interrupted_at \in {"matrix_loop", "run_return"} /\ ~LoopsOver
    \/ interrupted_at \in {"run_entry", "run_init", "loop_test", "loop_body",
                            "probe_call", "in_flight", "sleeping", "loop_exit"}
    \/ pc \in {"zero_division", "raised", "finally_raising"}
    \/ pc = "matrix_raised" /\ client = "closed"

\* C23: save_results is called at most once, and only when every run of the
\* matrix has returned, with the statistics of all of them; when the matrix
\* is ended early, by an interrupt or by an exception in a run, it is never
\* called, whatever had been collected.
C23_SavedOnceAfterAllRuns ==
    /\ Len(saved) <= 1
    /\ saved # <<>> => LoopsOver /\ Len(saved[1].stats) = TotalTests
    /\ EndedEarly => saved = <<>>
    /\ InRun \/ InConnect \/ pc \in {"matrix_loop", "run_return", "save_results"}
           => saved = <<>>

\* run_all_tests returned after an interrupt in the third run: the
\* statistics of the two runs before it were collected and were not saved
C23_Witness ==
    /\ pc = "matrix_return"
    /\ interrupted_at = "in_flight"
    /\ Len(all_stats) = 2
    /\ saved = <<>>
    /\ close_calls = 1

=============================================================================
